---------------------------- MODULE Spec2Model ----------------------------
(***************************************************************************)
(* A model of the seed generator of src/src/index.ts: the dependency graph *)
(* of the entity types, its topological order, the multi-pass creation     *)
(* loop and the self-relation phase that follows it.                       *)
(*                                                                         *)
(* Entity types are numbered 1..n in the order the schema declares them    *)
(* (the order of Object.keys on the name-keyed maps of the source).  Only  *)
(* the relation (kind "object") fields of a type are modelled; scalar      *)
(* fields take no part in any decision of the engine.                      *)
(***************************************************************************)
EXTENDS Integers, Sequences, FiniteSets, TLC

\* ------------------------------------------------------------------ bounds

\* Entity types of an enumerated schema.
NumModels == 3

\* Relation fields of an enumerated schema, all types together.
MaxRel == 2

\* multiPassCreate(dmmfData, 5)
maxPasses == 5

\* ------------------------------------------------------- field descriptors

\* The relation (kind "object") fields of the DMMF.  nFrom and nTo are the
\* lengths of relationFromFields and relationToFields.  A schema that getDMMF
\* accepts declares both sides of every relation: the side that holds the
\* foreign key (required or optional), and the opposite side, which holds
\* none and is either a list (flagged isRequired by the DMMF) or an optional
\* single reference.
ReqField(t)  == [type |-> t, isList |-> FALSE, isRequired |-> TRUE,  nFrom |-> 1, nTo |-> 1]
OptField(t)  == [type |-> t, isList |-> FALSE, isRequired |-> FALSE, nFrom |-> 1, nTo |-> 1]
BackField(t) == [type |-> t, isList |-> FALSE, isRequired |-> FALSE, nFrom |-> 0, nTo |-> 0]
ListField(t) == [type |-> t, isList |-> TRUE,  isRequired |-> TRUE,  nFrom |-> 0, nTo |-> 0]

\* A relation: type a references type b through a foreign key held by a.
\* backFirst tells, for a relation of a type to itself, that the opposite
\* side is declared before the side that holds the key.
Rel(a, b, required, backList, backFirst) ==
  [a |-> a, b |-> b, required |-> required, backList |-> backList, backFirst |-> backFirst]

Relations(n) ==
  { Rel(a, b, rq, bl, bf) : a \in 1..n, b \in 1..n, rq \in BOOLEAN, bl \in BOOLEAN,
                            bf \in BOOLEAN }

\* One declaration order per relation set: backFirst only tells something
\* for a one-to-one relation of a type to itself.
WellFormedRel(r) == r.backFirst => (r.a = r.b /\ ~r.backList)

RelKey(r, n) ==
  ((((r.a * (n + 1) + r.b) * 2 + (IF r.required THEN 0 ELSE 1)) * 2
      + (IF r.backList THEN 0 ELSE 1)) * 2) + (IF r.backFirst THEN 1 ELSE 0)

RECURSIVE RelSeq(_, _)
\* The relations of a set in declaration order.
RelSeq(rs, n) ==
  IF rs = {} THEN <<>>
  ELSE LET r == CHOOSE x \in rs : \A y \in rs : RelKey(x, n) <= RelKey(y, n)
       IN  <<r>> \o RelSeq(rs \ {r}, n)

KeySide(r)  == IF r.required THEN ReqField(r.b) ELSE OptField(r.b)
BackSide(r) == IF r.backList THEN ListField(r.a) ELSE BackField(r.a)

\* The fields relation r declares on type m.
RelFields(r, m) ==
  IF r.a = m /\ r.b = m
    THEN (IF r.backFirst THEN <<BackSide(r), KeySide(r)>> ELSE <<KeySide(r), BackSide(r)>>)
  ELSE IF r.a = m THEN <<KeySide(r)>>
  ELSE IF r.b = m THEN <<BackSide(r)>>
  ELSE <<>>

RECURSIVE FieldsOf(_, _)
FieldsOf(q, m) ==
  IF q = <<>> THEN <<>> ELSE RelFields(Head(q), m) \o FieldsOf(Tail(q), m)

\* A schema: n entity types, and the relation fields of each in declaration
\* order.
MkSchema(n, rs) == [n |-> n, fields |-> [m \in 1..n |-> FieldsOf(RelSeq(rs, n), m)]]

RECURSIVE SubsetsUpTo(_, _)
\* The subsets of S of at most k members.
SubsetsUpTo(S, k) ==
  IF k = 0 THEN {{}}
  ELSE LET smaller == SubsetsUpTo(S, k - 1)
       IN  smaller \cup { T \cup {x} : T \in smaller, x \in S }

\* Every schema of NumModels types with at most MaxRel relations.
EnumSchemas ==
  { MkSchema(NumModels, rs) :
      rs \in SubsetsUpTo({ r \in Relations(NumModels) : WellFormedRel(r) }, MaxRel) }

\* A chain of d types, each requiring the next one of the chain.  When
\* reversed is FALSE type i requires type i+1 (the deepest prerequisite is
\* declared last); when TRUE type i requires type i-1.
Chain(d, reversed) ==
  MkSchema(d, { Rel(i, IF reversed THEN i - 1 ELSE i + 1, TRUE, TRUE, FALSE) :
                  i \in (IF reversed THEN 2..d ELSE 1..(d - 1)) })

\* X (type 1) requires Y (type 2), and the same with Y declared first.
TwoTypeXY == MkSchema(2, { Rel(1, 2, TRUE, TRUE, FALSE) })
TwoTypeYX == MkSchema(2, { Rel(2, 1, TRUE, TRUE, FALSE) })

\* X requires Y and Y requires X.
CyclicPair == MkSchema(2, { Rel(1, 2, TRUE, FALSE, FALSE), Rel(2, 1, TRUE, TRUE, FALSE) })

\* Z (type 1) requires X (type 2); X and Y (type 3) require each other.
CycleWithDependent ==
  MkSchema(3, { Rel(1, 2, TRUE, TRUE, FALSE), Rel(2, 3, TRUE, TRUE, FALSE),
                Rel(3, 2, TRUE, FALSE, FALSE) })

\* A type with a parent / children relation to itself that a second type
\* requires, and a type with a one-to-one relation to itself whose opposite
\* side is declared first.
SelfParent   == MkSchema(2, { Rel(1, 2, TRUE, TRUE, FALSE), Rel(2, 2, FALSE, TRUE, FALSE) })
SelfBackFirst == MkSchema(2, { Rel(1, 1, FALSE, FALSE, TRUE), Rel(2, 1, FALSE, TRUE, FALSE) })

\* Two types, each with an optional parent / children relation to itself.
TwoSelfTypes == MkSchema(2, { Rel(1, 1, FALSE, TRUE, FALSE), Rel(2, 2, FALSE, TRUE, FALSE) })

NamedSchemas ==
  { TwoTypeXY, TwoTypeYX, CyclicPair, CycleWithDependent, SelfParent, SelfBackFirst,
    TwoSelfTypes,
    Chain(maxPasses, FALSE), Chain(maxPasses, TRUE),
    Chain(maxPasses + 1, FALSE), Chain(maxPasses + 1, TRUE) }

Models(s) == 1..s.n

\* --------------------------------------------------- buildDependencyGraph

\* referencedBy is a JavaScript Set: it keeps insertion order and ignores a
\* second add of the same member.
SetAdd(seq, x) ==
  IF \E i \in 1..Len(seq) : seq[i] = x THEN seq ELSE Append(seq, x)

EmptyGraph(s) == [m \in Models(s) |-> [dependsOn |-> {}, referencedBy |-> <<>>]]

\* A field that is an object, not a list and required, but for these flags.
AddDependencyAlsoLists(g, m, f) ==
  IF f.isRequired /\ f.type \in DOMAIN g
    THEN LET g1 == [g EXCEPT ![m].dependsOn = @ \cup {f.type}]
         IN  [g1 EXCEPT ![f.type].referencedBy = SetAdd(@, m)]
    ELSE g

\* The body of the inner loop: one field of one model.
AddDependency(g, m, f) ==
  IF ~f.isList /\ f.isRequired /\ f.type \in DOMAIN g
    THEN LET g1 == [g EXCEPT ![m].dependsOn = @ \cup {f.type}]
         IN  [g1 EXCEPT ![f.type].referencedBy = SetAdd(@, m)]
    ELSE g

RECURSIVE GraphLoop(_, _, _, _)
GraphLoop(s, g, m, i) ==
  IF m > s.n THEN g
  ELSE IF i > Len(s.fields[m]) THEN GraphLoop(s, g, m + 1, 1)
       ELSE GraphLoop(s, AddDependency(g, m, s.fields[m][i]), m, i + 1)

buildDependencyGraph(s) == GraphLoop(s, EmptyGraph(s), 1, 1)

\* -------------------------------------------------------- topologicalSort

RECURSIVE KeysWhere(_, _, _)
\* Object.keys(inDegree).filter(...) over keys i..n, pred given as a set.
KeysWhere(i, n, keep) ==
  IF i > n THEN <<>>
  ELSE (IF i \in keep THEN <<i>> ELSE <<>>) \o KeysWhere(i + 1, n, keep)

RECURSIVE VisitRefs(_, _, _)
\* for (const ref of graph[current].referencedBy) { inDegree[ref]--; ... }
VisitRefs(refs, inDegree, queue) ==
  IF refs = <<>> THEN [inDegree |-> inDegree, queue |-> queue]
  ELSE LET ref == Head(refs)
           d   == [inDegree EXCEPT ![ref] = @ - 1]
       IN  VisitRefs(Tail(refs), d, IF d[ref] = 0 THEN Append(queue, ref) ELSE queue)

RECURSIVE KahnLoop(_, _, _, _)
\* while (queue.length) { current = queue.shift(); sorted.push(current); ... }
KahnLoop(g, queue, sorted, inDegree) ==
  IF queue = <<>> THEN [sorted |-> sorted, inDegree |-> inDegree]
  ELSE LET current == Head(queue)
           v == VisitRefs(g[current].referencedBy, inDegree, Tail(queue))
       IN  KahnLoop(g, v.queue, Append(sorted, current), v.inDegree)

\* The sorted prefix returned alone.
RemainingDropped(n, inDegree) == <<>>

\* Object.keys(inDegree).filter((m) => inDegree[m] > 0)
Remaining(n, inDegree) ==
  KeysWhere(1, n, { m \in 1..n : inDegree[m] > 0 })

\* The types in declaration order, unsorted.
topologicalSortUnsorted(g) ==
  KeysWhere(1, Cardinality(DOMAIN g), DOMAIN g)

\* The order of Kahn's algorithm returned back to front.
topologicalSortReversed(g) ==
  LET n        == Cardinality(DOMAIN g)
      inDegree == [m \in DOMAIN g |-> Cardinality(g[m].dependsOn)]
      queue    == KeysWhere(1, n, { m \in 1..n : inDegree[m] = 0 })
      r        == KahnLoop(g, queue, <<>>, inDegree)
      out      == IF Len(r.sorted) < n
                    THEN r.sorted \o Remaining(n, r.inDegree)
                    ELSE r.sorted
  IN  [i \in 1..Len(out) |-> out[Len(out) + 1 - i]]

\* Kahn's algorithm started from the number of referrers of each type.
topologicalSortByReferrers(g) ==
  LET n        == Cardinality(DOMAIN g)
      inDegree == [m \in DOMAIN g |-> Len(g[m].referencedBy)]
      queue    == KeysWhere(1, n, { m \in 1..n : inDegree[m] = 0 })
      r        == KahnLoop(g, queue, <<>>, inDegree)
  IN  IF Len(r.sorted) < n
        THEN r.sorted \o Remaining(n, r.inDegree)
        ELSE r.sorted

topologicalSort(g) ==
  LET n        == Cardinality(DOMAIN g)
      inDegree == [m \in DOMAIN g |-> Cardinality(g[m].dependsOn)]
      queue    == KeysWhere(1, n, { m \in 1..n : inDegree[m] = 0 })
      r        == KahnLoop(g, queue, <<>>, inDegree)
  IN  IF Len(r.sorted) < n
        THEN r.sorted \o Remaining(n, r.inDegree)
        ELSE r.sorted

\* ------------------------------------------------------ buildCreationData

Absent      == [kind |-> "absent",  keys |-> <<>>]
Unset       == [kind |-> "unset",   keys |-> <<>>]
Connect(ks) == [kind |-> "connect", keys |-> ks]

\* A connect whose key values are read from a field the record does not hold.
ConnectToWrongKey(f, record) == Connect([k \in 1..f.nTo |-> 0])

\* connect: each name of relationToFields mapped to the value the record
\* holds for it.  A record is read back through its identifying value only.
ConnectTo(f, record) == Connect([k \in 1..f.nTo |-> record.id])

\* The relation loop with a connect for the required relations only.
RelationDataRequiredOnly(s, map, m, f) ==
  IF f.type = m THEN Absent
  ELSE IF f.isList THEN Absent
  ELSE IF f.nFrom = 0 THEN Absent
  ELSE IF f.type \notin DOMAIN map
    THEN (IF f.isRequired THEN Unset ELSE Absent)
  ELSE IF map[f.type].createdRecords # <<>> /\ f.isRequired
    THEN ConnectTo(f, map[f.type].createdRecords[1])
  ELSE Unset

\* What the payload carries for relation field f of type m: nothing for a
\* self-relation, a list or a field without foreign key; a connect to the
\* first created record of the target type when it has one; else undefined.
RelationData(s, map, m, f) ==
  IF f.type = m THEN Absent
  ELSE IF f.isList THEN Absent
  ELSE IF f.nFrom = 0 THEN Absent
  ELSE IF f.type \notin DOMAIN map
    THEN (IF f.isRequired THEN Unset ELSE Absent)
  ELSE IF map[f.type].createdRecords # <<>>
    THEN ConnectTo(f, map[f.type].createdRecords[1])
  ELSE Unset

buildCreationData(s, map, m) ==
  [i \in 1..Len(s.fields[m]) |-> RelationData(s, map, m, s.fields[m][i])]

\* The relation loop inlined in tryCreateOneRecord of the variant without
\* self-relation handling: a relation of the type to itself is treated as
\* any other relation.
inlineRelationData(s, map, m, f) ==
  IF f.isList THEN Absent
  ELSE IF f.nFrom = 0 THEN Absent
  ELSE IF f.type \notin DOMAIN map
    THEN (IF f.isRequired THEN Unset ELSE Absent)
  ELSE IF map[f.type].createdRecords # <<>>
    THEN ConnectTo(f, map[f.type].createdRecords[1])
  ELSE Unset

\* The payload tryCreateOneRecord sends for type m in variant v.
creationData(s, v, map, m) ==
  IF v = "plain"
    THEN [i \in 1..Len(s.fields[m]) |-> inlineRelationData(s, map, m, s.fields[m][i])]
    ELSE buildCreationData(s, map, m)

\* isSelfRelationModel(model)
isSelfRelationModel(s, m) ==
  \E i \in 1..Len(s.fields[m]) : s.fields[m][i].type = m /\ ~s.fields[m][i].isList

\* model.fields.find(f => f.kind === "object" && f.type === modelName && !f.isList):
\* the position of the first such field, 0 when there is none.
selfRelationField(s, m) ==
  LET hits == { i \in 1..Len(s.fields[m]) : s.fields[m][i].type = m /\ ~s.fields[m][i].isList }
  IN  IF hits = {} THEN 0 ELSE CHOOSE i \in hits : \A j \in hits : i <= j

\* The payload of the additional record of a self-relating type: the
\* creation data, with the self-relation field connected to the first record.
additionalData(s, map, m) ==
  LET data == buildCreationData(s, map, m)
      sf   == selfRelationField(s, m)
  IN  IF sf = 0 THEN data
      ELSE [data EXCEPT ![sf] = ConnectTo(s.fields[m][sf], map[m].createdRecords[1])]

\* ---------------------------------------------- the persistence collaborator

\* Every required single-valued relation of type m is connected in the payload.
RequiredConnected(s, m, data) ==
  \A i \in 1..Len(s.fields[m]) :
     (s.fields[m][i].isRequired /\ ~s.fields[m][i].isList)
        => (data[i].kind = "connect" /\ data[i].keys # <<>>)

\* ------------------------------------------------------------------ state

VARIABLES
  schema,            \* the loaded datamodel
  variant,           \* which generateSeedData runs: "second", "retro" or "plain"
  faulty,            \* the store answers a create as it likes
  pc,                \* the call the run is suspended on
  graph,             \* buildDependencyGraph(models)
  sortedModelNames,  \* topologicalSort(graph)
  modelDataMap,      \* name -> createdRecords, created
  pass,
  idx,               \* position in sortedModelNames of the for-of loop
  createdAlgoNestaPassada,
  selfIdx,           \* position of the for-in loop over modelDataMap
  recIdx,            \* position of the loop over createdRecords (retro)
  secondRecord,      \* id of the additional record between its create and its update
  store,             \* name -> the records the store holds
  nextId,            \* next identifying value the store assigns
  thrown,            \* an error is propagating out of the try block
  outcome,           \* "running", "success" or "error"
  disconnects,       \* calls of prisma.$disconnect()
  createCalls,       \* create calls issued by the pass loop
  tried,             \* name -> create calls of the current pass
  acceptedUnset,     \* a create succeeded with a required relation not connected
  refusedConnected,  \* a create failed with every required relation connected
  resolverCalls,     \* persistence calls the self-relation phase has issued
  passStartMap,      \* modelDataMap as it was when the current pass started
  updateFailed       \* an update call of the self-relation phase has failed

vars == <<schema, variant, faulty, pc, graph, sortedModelNames, modelDataMap, pass, idx,
          createdAlgoNestaPassada, selfIdx, recIdx, secondRecord, store, nextId, thrown,
          outcome, disconnects, createCalls, tried, acceptedUnset, refusedConnected,
          resolverCalls, passStartMap, updateFailed>>

Variants == {"second", "retro", "plain"}

\* The enumerated schemas run in the second-record variant against a store
\* that accepts a payload exactly when its required relations are connected;
\* the named schemas run in every variant against a store that answers as
\* it likes.
Init ==
  /\ \/ schema \in EnumSchemas /\ variant = "second" /\ faulty = FALSE
     \/ schema \in NamedSchemas /\ variant \in Variants /\ faulty = TRUE
  /\ pc = "load"
  /\ graph = <<>>
  /\ sortedModelNames = <<>>
  /\ modelDataMap = <<>>
  /\ pass = 0
  /\ idx = 0
  /\ createdAlgoNestaPassada = FALSE
  /\ selfIdx = 0
  /\ recIdx = 1
  /\ secondRecord = 0
  /\ store = [m \in Models(schema) |-> <<>>]
  /\ nextId = 1
  /\ thrown = FALSE
  /\ outcome = "running"
  /\ disconnects = 0
  /\ createCalls = 0
  /\ tried = [m \in Models(schema) |-> 0]
  /\ acceptedUnset = FALSE
  /\ refusedConnected = FALSE
  /\ resolverCalls = 0
  /\ passStartMap = <<>>
  /\ updateFailed = FALSE

\* ---------------------------------------------- control between two awaits

RECURSIVE SelfAdvanceOnlyEmpty(_, _, _, _)
\* The for-in loop with the additional record given to types without any record.
SelfAdvanceOnlyEmpty(s, v, map, i) ==
  IF v = "plain" \/ i > s.n THEN [pc |-> "disconnect", selfIdx |-> i]
  ELSE IF ~isSelfRelationModel(s, i) THEN SelfAdvanceOnlyEmpty(s, v, map, i + 1)
  ELSE IF v = "second"
    THEN IF Len(map[i].createdRecords) >= 1 THEN SelfAdvanceOnlyEmpty(s, v, map, i + 1)
         ELSE [pc |-> "selfFirst", selfIdx |-> i]
  ELSE IF map[i].createdRecords = <<>> \/ selfRelationField(s, i) = 0
    THEN SelfAdvanceOnlyEmpty(s, v, map, i + 1)
  ELSE [pc |-> "retroUpdate", selfIdx |-> i]

RECURSIVE SelfAdvance(_, _, _, _)
\* The for-in loop of generateSeedData from position i on, up to the next
\* persistence call: the call it suspends on, or the disconnect of finally.
SelfAdvance(s, v, map, i) ==
  IF v = "plain" \/ i > s.n THEN [pc |-> "disconnect", selfIdx |-> i]
  ELSE IF ~isSelfRelationModel(s, i) THEN SelfAdvance(s, v, map, i + 1)
  ELSE IF v = "second"
    THEN IF Len(map[i].createdRecords) >= 2 THEN SelfAdvance(s, v, map, i + 1)
         ELSE IF map[i].createdRecords = <<>> THEN [pc |-> "selfFirst", selfIdx |-> i]
         ELSE [pc |-> "selfSecond", selfIdx |-> i]
  ELSE IF map[i].createdRecords = <<>> \/ selfRelationField(s, i) = 0
    THEN SelfAdvance(s, v, map, i + 1)
  ELSE [pc |-> "retroUpdate", selfIdx |-> i]

RECURSIVE LoopAdvanceNoBreak(_, _, _, _, _, _)
\* The loops without the break after a pass that created nothing.
LoopAdvanceNoBreak(sorted, map, p, i, flag, tr) ==
  IF p > maxPasses THEN [pc |-> "return", pass |-> p, idx |-> i, flag |-> flag, tried |-> tr]
  ELSE IF i > Len(sorted)
    THEN LoopAdvanceNoBreak(sorted, map, p + 1, 1, FALSE, [m \in DOMAIN tr |-> 0])
  ELSE IF map[sorted[i]].created THEN LoopAdvanceNoBreak(sorted, map, p, i + 1, flag, tr)
  ELSE [pc |-> "create", pass |-> p, idx |-> i, flag |-> flag,
        tried |-> [tr EXCEPT ![sorted[i]] = @ + 1]]

RECURSIVE LoopAdvanceExtraPass(_, _, _, _, _, _)
\* The loops with one pass more than maxPasses.
LoopAdvanceExtraPass(sorted, map, p, i, flag, tr) ==
  IF p > maxPasses + 1
    THEN [pc |-> "return", pass |-> p, idx |-> i, flag |-> flag, tried |-> tr]
  ELSE IF i > Len(sorted)
    THEN IF ~flag THEN [pc |-> "return", pass |-> p, idx |-> i, flag |-> flag, tried |-> tr]
         ELSE LoopAdvanceExtraPass(sorted, map, p + 1, 1, FALSE, [m \in DOMAIN tr |-> 0])
  ELSE IF map[sorted[i]].created THEN LoopAdvanceExtraPass(sorted, map, p, i + 1, flag, tr)
  ELSE [pc |-> "create", pass |-> p, idx |-> i, flag |-> flag,
        tried |-> [tr EXCEPT ![sorted[i]] = @ + 1]]

\* Some single-valued relation of type m has a target without record.
TargetMissing(map, m) ==
  \E i \in 1..Len(schema.fields[m]) :
     /\ ~schema.fields[m][i].isList /\ schema.fields[m][i].nFrom > 0
     /\ schema.fields[m][i].type # m
     /\ map[schema.fields[m][i].type].createdRecords = <<>>

RECURSIVE LoopAdvanceWaitsForTargets(_, _, _, _, _, _)
\* The loops with a type left for a later pass while the target of any of
\* its relations, optional ones included, has no record.
LoopAdvanceWaitsForTargets(sorted, map, p, i, flag, tr) ==
  IF p > maxPasses THEN [pc |-> "return", pass |-> p, idx |-> i, flag |-> flag, tried |-> tr]
  ELSE IF i > Len(sorted)
    THEN IF ~flag THEN [pc |-> "return", pass |-> p, idx |-> i, flag |-> flag, tried |-> tr]
         ELSE LoopAdvanceWaitsForTargets(sorted, map, p + 1, 1, FALSE, [m \in DOMAIN tr |-> 0])
  ELSE IF map[sorted[i]].created \/ TargetMissing(map, sorted[i])
    THEN LoopAdvanceWaitsForTargets(sorted, map, p, i + 1, flag, tr)
  ELSE [pc |-> "create", pass |-> p, idx |-> i, flag |-> flag,
        tried |-> [tr EXCEPT ![sorted[i]] = @ + 1]]

RECURSIVE LoopAdvanceInvertedBreak(_, _, _, _, _, _)
\* The loops with the break taken after a pass that created something.
LoopAdvanceInvertedBreak(sorted, map, p, i, flag, tr) ==
  IF p > maxPasses THEN [pc |-> "return", pass |-> p, idx |-> i, flag |-> flag, tried |-> tr]
  ELSE IF i > Len(sorted)
    THEN IF flag THEN [pc |-> "return", pass |-> p, idx |-> i, flag |-> flag, tried |-> tr]
         ELSE LoopAdvanceInvertedBreak(sorted, map, p + 1, 1, FALSE, [m \in DOMAIN tr |-> 0])
  ELSE IF map[sorted[i]].created THEN LoopAdvanceInvertedBreak(sorted, map, p, i + 1, flag, tr)
  ELSE [pc |-> "create", pass |-> p, idx |-> i, flag |-> flag,
        tried |-> [tr EXCEPT ![sorted[i]] = @ + 1]]

RECURSIVE LoopAdvance(_, _, _, _, _, _)
\* The while / for-of loops of multiPassCreate from position i of pass p on,
\* up to the next create call or the return.
LoopAdvance(sorted, map, p, i, flag, tr) ==
  IF p > maxPasses THEN [pc |-> "return", pass |-> p, idx |-> i, flag |-> flag, tried |-> tr]
  ELSE IF i > Len(sorted)
    THEN IF ~flag THEN [pc |-> "return", pass |-> p, idx |-> i, flag |-> flag, tried |-> tr]
         ELSE LoopAdvance(sorted, map, p + 1, 1, FALSE, [m \in DOMAIN tr |-> 0])
  ELSE IF map[sorted[i]].created THEN LoopAdvance(sorted, map, p, i + 1, flag, tr)
  ELSE [pc |-> "create", pass |-> p, idx |-> i, flag |-> flag,
        tried |-> [tr EXCEPT ![sorted[i]] = @ + 1]]

\* Resume the pass loop, and after its return the self-relation phase.
Resume(sorted, map, p, i, flag) ==
  LET r  == LoopAdvance(sorted, map, p, i, flag, tried)
      sa == SelfAdvance(schema, variant, map, 1)
  IN  /\ pass' = r.pass
      /\ idx' = r.idx
      /\ createdAlgoNestaPassada' = r.flag
      /\ tried' = r.tried
      /\ createCalls' = IF r.pc = "create" THEN createCalls + 1 ELSE createCalls
      /\ pc' = IF r.pc = "create" THEN "create" ELSE sa.pc
      /\ selfIdx' = IF r.pc = "create" THEN selfIdx ELSE sa.selfIdx
      /\ passStartMap' = IF r.pass # pass THEN map ELSE passStartMap

\* ---------------------------------------------------------------- actions

\* loadDMMF resolves; multiPassCreate builds the graph, the order and the
\* run state and enters pass 1.
LoadOk ==
  /\ pc = "load"
  /\ graph' = buildDependencyGraph(schema)
  /\ sortedModelNames' = topologicalSort(graph')
  /\ modelDataMap' = [m \in Models(schema) |-> [createdRecords |-> <<>>, created |-> FALSE]]
  /\ Resume(sortedModelNames', modelDataMap', 1, 1, FALSE)
  /\ UNCHANGED <<schema, variant, faulty, recIdx, secondRecord, store, nextId, thrown,
                 outcome, disconnects, acceptedUnset, resolverCalls, refusedConnected, updateFailed>>

\* loadDMMF throws and the catch block does not rethrow.
LoadFailSwallowed ==
  /\ pc = "load"
  /\ pc' = "disconnect"
  /\ UNCHANGED <<schema, variant, faulty, graph, sortedModelNames, modelDataMap, pass, idx,
                 createdAlgoNestaPassada, selfIdx, recIdx, secondRecord, store, nextId,
                 thrown, outcome, disconnects, createCalls, tried, acceptedUnset,
                 resolverCalls, refusedConnected, passStartMap, updateFailed>>

\* loadDMMF throws and the error leaves generateSeedData at once.
LoadFailNoRelease ==
  /\ pc = "load"
  /\ thrown' = TRUE
  /\ outcome' = "error"
  /\ pc' = "done"
  /\ UNCHANGED <<schema, variant, faulty, graph, sortedModelNames, modelDataMap, pass, idx,
                 createdAlgoNestaPassada, selfIdx, recIdx, secondRecord, store, nextId,
                 disconnects, createCalls, tried, acceptedUnset, resolverCalls,
                 refusedConnected, passStartMap, updateFailed>>

\* loadDMMF throws: the catch block rethrows, finally disconnects.
LoadFail ==
  /\ pc = "load"
  /\ thrown' = TRUE
  /\ pc' = "disconnect"
  /\ UNCHANGED <<schema, variant, faulty, graph, sortedModelNames, modelDataMap, pass, idx,
                 createdAlgoNestaPassada, selfIdx, recIdx, secondRecord, store, nextId,
                 outcome, disconnects, createCalls, tried, acceptedUnset, resolverCalls, refusedConnected,
                 passStartMap, updateFailed>>

\* What the store answers to a create of type m with payload data.
MaySucceed(m, data) == faulty \/ RequiredConnected(schema, m, data)
MayFail(m, data)    == faulty \/ ~RequiredConnected(schema, m, data)

\* A create of type m with payload data is refused.
Refuse(m, data) ==
  refusedConnected' = (refusedConnected \/ RequiredConnected(schema, m, data))

NewRecord(data) == [id |-> nextId, rel |-> data]

\* The record put in front of createdRecords.
PushRecordFront(map, m, rec) == [map EXCEPT ![m].createdRecords = <<rec>> \o @]

\* tryCreateOneRecord pushes the record.
PushRecord(map, m, rec) == [map EXCEPT ![m].createdRecords = Append(@, rec)]

\* The created flag left as it is.
MarkCreatedForgotten(map, m) == map

\* multiPassCreate marks the type created.
MarkCreated(map, m) == [map EXCEPT ![m].created = TRUE]

Persist(m, rec, data) ==
  /\ store' = [store EXCEPT ![m] = Append(@, rec)]
  /\ nextId' = nextId + 1
  /\ acceptedUnset' = (acceptedUnset \/ ~RequiredConnected(schema, m, data))

\* The create of the pass loop succeeds.
CreateOk ==
  /\ pc = "create"
  /\ LET m    == sortedModelNames[idx]
         data == creationData(schema, variant, modelDataMap, m)
         rec  == NewRecord(data)
     IN  /\ MaySucceed(m, data)
         /\ Persist(m, rec, data)
         /\ modelDataMap' = MarkCreated(PushRecord(modelDataMap, m, rec), m)
         /\ Resume(sortedModelNames, modelDataMap', pass, idx + 1, TRUE)
  /\ UNCHANGED <<schema, variant, faulty, graph, sortedModelNames, recIdx, secondRecord,
                 thrown, outcome, disconnects, resolverCalls, refusedConnected, updateFailed>>

\* The failed create with its error thrown out of multiPassCreate.
CreateFailRaised ==
  /\ pc = "create"
  /\ LET m    == sortedModelNames[idx]
         data == creationData(schema, variant, modelDataMap, m)
     IN  MayFail(m, data) /\ Refuse(m, data)
  /\ thrown' = TRUE
  /\ pc' = "disconnect"
  /\ UNCHANGED <<schema, variant, faulty, graph, sortedModelNames, modelDataMap, pass, idx,
                 createdAlgoNestaPassada, selfIdx, recIdx, secondRecord, store, nextId,
                 outcome, disconnects, createCalls, tried, acceptedUnset, resolverCalls,
                 passStartMap, updateFailed>>

\* The failed create with the type marked created all the same.
CreateFailMarksCreated ==
  /\ pc = "create"
  /\ LET m    == sortedModelNames[idx]
         data == creationData(schema, variant, modelDataMap, m)
     IN  /\ MayFail(m, data) /\ Refuse(m, data)
         /\ modelDataMap' = MarkCreated(modelDataMap, m)
  /\ Resume(sortedModelNames, modelDataMap', pass, idx + 1, createdAlgoNestaPassada)
  /\ UNCHANGED <<schema, variant, faulty, graph, sortedModelNames, recIdx,
                 secondRecord, store, nextId, thrown, outcome, disconnects, acceptedUnset,
                 resolverCalls, updateFailed>>

\* The create of the pass loop fails: the error is swallowed.
CreateFail ==
  /\ pc = "create"
  /\ LET m    == sortedModelNames[idx]
         data == creationData(schema, variant, modelDataMap, m)
     IN  MayFail(m, data) /\ Refuse(m, data)
  /\ Resume(sortedModelNames, modelDataMap, pass, idx + 1, createdAlgoNestaPassada)
  /\ UNCHANGED <<schema, variant, faulty, graph, sortedModelNames, modelDataMap, recIdx,
                 secondRecord, store, nextId, thrown, outcome, disconnects, acceptedUnset, resolverCalls, updateFailed>>

SelfResume(map, i) ==
  LET sa == SelfAdvance(schema, variant, map, i)
  IN  pc' = sa.pc /\ selfIdx' = sa.selfIdx

\* createAdditionalSelfRelationRecord finds no first record and creates it.
SelfFirstOk ==
  /\ pc = "selfFirst"
  /\ LET m    == selfIdx
         data == buildCreationData(schema, modelDataMap, m)
         rec  == NewRecord(data)
     IN  /\ MaySucceed(m, data)
         /\ Persist(m, rec, data)
         /\ modelDataMap' = PushRecord(modelDataMap, m, rec)
  /\ pc' = "selfSecond"
  /\ resolverCalls' = resolverCalls + 1
  /\ UNCHANGED <<schema, variant, faulty, graph, sortedModelNames, pass, idx,
                 createdAlgoNestaPassada, selfIdx, recIdx, secondRecord, thrown, outcome,
                 disconnects, createCalls, tried, refusedConnected,
                 passStartMap, updateFailed>>

SelfFirstFail ==
  /\ pc = "selfFirst"
  /\ MayFail(selfIdx, buildCreationData(schema, modelDataMap, selfIdx))
  /\ SelfResume(modelDataMap, selfIdx + 1)
  /\ resolverCalls' = resolverCalls + 1
  /\ Refuse(selfIdx, buildCreationData(schema, modelDataMap, selfIdx))
  /\ UNCHANGED <<schema, variant, faulty, graph, sortedModelNames, modelDataMap, pass, idx,
                 createdAlgoNestaPassada, recIdx, secondRecord, store, nextId, thrown,
                 outcome, disconnects, createCalls, tried, acceptedUnset,
                 passStartMap, updateFailed>>

\* The create of the additional record succeeds; its update comes next.
SelfSecondOk ==
  /\ pc = "selfSecond"
  /\ LET m    == selfIdx
         data == additionalData(schema, modelDataMap, m)
         rec  == NewRecord(data)
     IN  /\ MaySucceed(m, data)
         /\ Persist(m, rec, data)
         /\ secondRecord' = rec.id
  /\ pc' = "selfUpdate"
  /\ resolverCalls' = resolverCalls + 1
  /\ UNCHANGED <<schema, variant, faulty, graph, sortedModelNames, modelDataMap, pass, idx,
                 createdAlgoNestaPassada, selfIdx, recIdx, thrown, outcome, disconnects,
                 createCalls, tried, refusedConnected,
                 passStartMap, updateFailed>>

\* The create of the additional record fails and the for-in loop is left.
SelfSecondFailAborts ==
  /\ pc = "selfSecond"
  /\ MayFail(selfIdx, additionalData(schema, modelDataMap, selfIdx))
  /\ pc' = "disconnect"
  /\ resolverCalls' = resolverCalls + 1
  /\ Refuse(selfIdx, additionalData(schema, modelDataMap, selfIdx))
  /\ UNCHANGED <<schema, variant, faulty, graph, sortedModelNames, modelDataMap, pass, idx,
                 createdAlgoNestaPassada, selfIdx, recIdx, secondRecord, store, nextId, thrown,
                 outcome, disconnects, createCalls, tried, acceptedUnset, passStartMap,
                 updateFailed>>

SelfSecondFail ==
  /\ pc = "selfSecond"
  /\ MayFail(selfIdx, additionalData(schema, modelDataMap, selfIdx))
  /\ SelfResume(modelDataMap, selfIdx + 1)
  /\ resolverCalls' = resolverCalls + 1
  /\ Refuse(selfIdx, additionalData(schema, modelDataMap, selfIdx))
  /\ UNCHANGED <<schema, variant, faulty, graph, sortedModelNames, modelDataMap, pass, idx,
                 createdAlgoNestaPassada, recIdx, secondRecord, store, nextId, thrown,
                 outcome, disconnects, createCalls, tried, acceptedUnset,
                 passStartMap, updateFailed>>

\* The record of type m the store holds under identifying value id.
StoredRecord(m, id) == store[m][CHOOSE k \in 1..Len(store[m]) : store[m][k].id = id]

\* The update of createdAt succeeds: the updated record is pushed.
SelfUpdateOk ==
  /\ pc = "selfUpdate"
  /\ modelDataMap' = PushRecord(modelDataMap, selfIdx, StoredRecord(selfIdx, secondRecord))
  /\ secondRecord' = 0
  /\ SelfResume(modelDataMap', selfIdx + 1)
  /\ resolverCalls' = resolverCalls + 1
  /\ UNCHANGED <<schema, variant, faulty, graph, sortedModelNames, pass, idx,
                 createdAlgoNestaPassada, recIdx, store, nextId, thrown, outcome,
                 disconnects, createCalls, tried, acceptedUnset, refusedConnected,
                 passStartMap, updateFailed>>

\* The update fails: the catch block swallows it, nothing is pushed.
SelfUpdateFail ==
  /\ pc = "selfUpdate"
  /\ secondRecord' = 0
  /\ SelfResume(modelDataMap, selfIdx + 1)
  /\ resolverCalls' = resolverCalls + 1
  /\ updateFailed' = TRUE
  /\ UNCHANGED <<schema, variant, faulty, graph, sortedModelNames, modelDataMap, pass, idx,
                 createdAlgoNestaPassada, recIdx, store, nextId, thrown, outcome,
                 disconnects, createCalls, tried, acceptedUnset, refusedConnected,
                 passStartMap>>

\* After the update of record recIdx of type selfIdx: the next record of the
\* type, or the next type of the for-in loop.
RetroResume ==
  IF recIdx < Len(modelDataMap[selfIdx].createdRecords)
    THEN pc' = pc /\ selfIdx' = selfIdx /\ recIdx' = recIdx + 1
    ELSE SelfResume(modelDataMap, selfIdx + 1) /\ recIdx' = 1

\* updateSelfRelationForAllRecords: the update of one record succeeds; the
\* store connects its self-relation field to the first created record.
RetroUpdateOk ==
  /\ pc = "retroUpdate"
  /\ LET m     == selfIdx
         sf    == selfRelationField(schema, m)
         first == modelDataMap[m].createdRecords[1]
         id    == modelDataMap[m].createdRecords[recIdx].id
     IN  store' = [store EXCEPT ![m] =
                     [k \in 1..Len(@) |->
                        IF @[k].id = id
                          THEN [@[k] EXCEPT !.rel[sf] = ConnectTo(schema.fields[m][sf], first)]
                          ELSE @[k]]]
  /\ RetroResume
  /\ resolverCalls' = resolverCalls + 1
  /\ UNCHANGED <<schema, variant, faulty, graph, sortedModelNames, modelDataMap, pass, idx,
                 createdAlgoNestaPassada, secondRecord, nextId, thrown, outcome,
                 disconnects, createCalls, tried, acceptedUnset, refusedConnected,
                 passStartMap, updateFailed>>

\* The update of one record fails: the error is swallowed.
RetroUpdateFail ==
  /\ pc = "retroUpdate"
  /\ RetroResume
  /\ resolverCalls' = resolverCalls + 1
  /\ updateFailed' = TRUE
  /\ UNCHANGED <<schema, variant, faulty, graph, sortedModelNames, modelDataMap, pass, idx,
                 createdAlgoNestaPassada, secondRecord, store, nextId, thrown, outcome,
                 disconnects, createCalls, tried, acceptedUnset, refusedConnected,
                 passStartMap>>

\* prisma.$disconnect() resolves: the run returns, or rethrows what was thrown.
DisconnectOk ==
  /\ pc = "disconnect"
  /\ disconnects' = disconnects + 1
  /\ outcome' = IF thrown THEN "error" ELSE "success"
  /\ pc' = "done"
  /\ UNCHANGED <<schema, variant, faulty, graph, sortedModelNames, modelDataMap, pass, idx,
                 createdAlgoNestaPassada, selfIdx, recIdx, secondRecord, store, nextId,
                 thrown, createCalls, tried, acceptedUnset, resolverCalls, refusedConnected,
                 passStartMap, updateFailed>>

\* prisma.$disconnect() rejects: the rejection leaves generateSeedData.
DisconnectFail ==
  /\ pc = "disconnect"
  /\ disconnects' = disconnects + 1
  /\ thrown' = TRUE
  /\ outcome' = "error"
  /\ pc' = "done"
  /\ UNCHANGED <<schema, variant, faulty, graph, sortedModelNames, modelDataMap, pass, idx,
                 createdAlgoNestaPassada, selfIdx, recIdx, secondRecord, store, nextId,
                 createCalls, tried, acceptedUnset, resolverCalls, refusedConnected,
                 passStartMap, updateFailed>>

Next ==
  \/ LoadOk
  \/ LoadFail
  \/ CreateOk
  \/ CreateFail
  \/ SelfFirstOk
  \/ SelfFirstFail
  \/ SelfSecondOk
  \/ SelfSecondFail
  \/ SelfUpdateOk
  \/ SelfUpdateFail
  \/ RetroUpdateOk
  \/ RetroUpdateFail
  \/ DisconnectOk
  \/ DisconnectFail

Spec == Init /\ [][Next]_vars


\* ----------------------------------------------------------- vocabulary

\* multiPassCreate has built the graph and the order.
Loaded == DOMAIN graph = Models(schema)

\* multiPassCreate has returned.
Returned == Loaded /\ pc # "create"

\* multiPassCreate has returned and the self-relation phase has issued no call.
JustReturned == Returned /\ resolverCalls = 0

\* generateSeedData has ended after loading the schema.
Ended == Loaded /\ pc = "done"

SeqRange(seq) == { seq[i] : i \in 1..Len(seq) }

Occurrences(seq, x) == Cardinality({ i \in 1..Len(seq) : seq[i] = x })

\* b stands before a in seq.
Before(seq, b, a) == \E i, j \in 1..Len(seq) : i < j /\ seq[i] = b /\ seq[j] = a

\* Type a declares a required single-valued relation field to type b.
Requires(s, a, b) ==
  \E i \in 1..Len(s.fields[a]) :
     s.fields[a][i].type = b /\ s.fields[a][i].isRequired /\ ~s.fields[a][i].isList

RECURSIVE Prerequisites(_, _, _)
\* The types reached from the set ms along dependsOn in at most k steps.
Prerequisites(g, ms, k) ==
  IF k = 0 THEN ms
  ELSE Prerequisites(g, ms \cup UNION { g[m].dependsOn : m \in ms }, k - 1)

\* The types a depends on, directly or not.
DependsOnClosure(g, a) == Prerequisites(g, g[a].dependsOn, Cardinality(DOMAIN g))

Acyclic(g) == \A a \in DOMAIN g : a \notin DependsOnClosure(g, a)

\* So far the store has refused every payload that leaves a required relation
\* unset, and accepted every other one.
StoreExact == ~acceptedUnset /\ ~refusedConnected

ChainSchemas(d) == { Chain(d, FALSE), Chain(d, TRUE) }

\* The schema is a chain of depth maxPasses or of depth maxPasses + 1.
DeepChain ==
  /\ schema.n \in {maxPasses, maxPasses + 1}
  /\ schema \in ChainSchemas(schema.n)

AllCreated == \A m \in Models(schema) : modelDataMap[m].createdRecords # <<>>

\* ----------------------------------------------------------------- claims

\* C1: when the required single-valued relations of the schema form an
\* acyclic graph and the store accepts every payload whose required
\* relations are connected, generateSeedData ends with a created record for
\* every entity type, and in the second-record variant the store then holds
\* exactly two records of every type with a single-valued self-relation.
C1_EveryTypePopulated ==
  (Ended /\ ~refusedConnected /\ Acyclic(graph)) =>
     \A m \in Models(schema) :
        /\ modelDataMap[m].createdRecords # <<>>
        /\ store[m] # <<>>
        /\ (variant = "second" /\ isSelfRelationModel(schema, m)) => Len(store[m]) = 2

C1_Witness ==
  /\ Ended /\ Acyclic(graph) /\ ~refusedConnected /\ variant = "second"
  /\ \E a, b \in Models(schema) :
        /\ a # b /\ Requires(schema, a, b) /\ a < b
        /\ isSelfRelationModel(schema, b)
        /\ Len(store[b]) = 2 /\ Len(store[a]) = 1

\* C2: for an acyclic dependency graph, topologicalSort places B before A
\* for every edge "A dependsOn B".
C2_TopologicalOrder ==
  Loaded =>
     \/ \A a, b \in Models(schema) :
           b \in graph[a].dependsOn =>
              (Before(sortedModelNames, b, a) /\ ~Before(sortedModelNames, a, b))
     \/ ~Acyclic(graph)

\* A type declared first that depends on the two types declared after it.
C2_Witness ==
  /\ Loaded /\ Acyclic(graph)
  /\ Cardinality(graph[1].dependsOn) = 2
  /\ sortedModelNames[Len(sortedModelNames)] = 1

\* C3: for every graph of buildDependencyGraph, cyclic or not, the output of
\* topologicalSort holds every entity type exactly once.
C3_Permutation ==
  Loaded =>
     /\ Len(sortedModelNames) = schema.n
     /\ \A m \in Models(schema) : Occurrences(sortedModelNames, m) = 1

\* A type outside every cycle that depends on a member of a cycle of two.
C3_Witness ==
  /\ Loaded
  /\ \E z, x, y \in Models(schema) :
        /\ x # y /\ z # x /\ z # y
        /\ y \in graph[x].dependsOn /\ x \in graph[y].dependsOn
        /\ x \in graph[z].dependsOn
        /\ z \notin DependsOnClosure(graph, z)
        /\ Occurrences(sortedModelNames, z) = 1

\* C4: B is in dependsOn(A) exactly when A declares a required, non-list
\* relation field to B, and referencedBy is the inverse of dependsOn.
C4_EdgesMatchFields ==
  Loaded =>
     \A a, b \in Models(schema) :
        /\ (b \in graph[a].dependsOn) <=> Requires(schema, a, b)
        /\ (a \in SeqRange(graph[b].referencedBy)) <=> (b \in graph[a].dependsOn)

\* A required relation from a to b, whose list side on b adds no edge back.
C4_Witness ==
  /\ Loaded
  /\ \E a, b \in Models(schema) :
        /\ a # b /\ b \in graph[a].dependsOn /\ a \notin graph[b].dependsOn
        /\ \E i \in 1..Len(schema.fields[b]) :
              schema.fields[b][i].type = a /\ schema.fields[b][i].isList

\* C5: buildDependencyGraph adds no self edge: no type is in its own
\* dependsOn or referencedBy.
C5_NoSelfEdge ==
  Loaded =>
     \A a \in Models(schema) :
        a \notin graph[a].dependsOn /\ a \notin SeqRange(graph[a].referencedBy)

\* C6: when X declares a required relation to another type Y and the store
\* refuses a payload that leaves a required relation unset, every record of
\* X was created after the first record of Y, with a payload that connects
\* the relation to the key of that first record.
C6_RequiredTargetFirst ==
  (Loaded /\ ~acceptedUnset) =>
     \A x \in Models(schema) : \A i \in 1..Len(schema.fields[x]) :
        LET f == schema.fields[x][i]
        IN  (f.isRequired /\ ~f.isList /\ f.type # x) =>
               \A k \in 1..Len(store[x]) :
                  /\ modelDataMap[f.type].createdRecords # <<>>
                  /\ modelDataMap[f.type].createdRecords[1].id < store[x][k].id
                  /\ store[x][k].rel[i] =
                        Connect(<<modelDataMap[f.type].createdRecords[1].id>>)

\* The two-type schema with X declared first, both types created, against a
\* store that may refuse any payload.
C6_Witness ==
  /\ schema = TwoTypeXY /\ faulty /\ ~acceptedUnset /\ Returned
  /\ store[1] # <<>> /\ store[2] # <<>>
  /\ pass > 2

\* C7 as stated: with the exact store a chain of depth maxPasses is created
\* within maxPasses passes, and a chain of depth maxPasses + 1 returns with
\* its deepest type (the one that no other type references) not created.
C7_DepthSixLeftUncreated ==
  (Returned /\ StoreExact) =>
     /\ schema \in ChainSchemas(maxPasses) => (AllCreated /\ pass <= maxPasses + 1)
     /\ schema \in ChainSchemas(maxPasses + 1) =>
           \E m \in Models(schema) :
              graph[m].referencedBy = <<>> /\ modelDataMap[m].createdRecords = <<>>

\* C7 amended: with the exact store, chains of depth maxPasses and of depth
\* maxPasses + 1 are both created whole in the first pass: one create call
\* per type, and the second pass finds nothing to create.
C7_ChainsCreatedInFirstPass ==
  (Returned /\ StoreExact /\ DeepChain) =>
     /\ AllCreated
     /\ createCalls = schema.n
     /\ pass = 2

C7_Witness ==
  /\ Returned /\ StoreExact /\ schema = Chain(maxPasses + 1, FALSE)
  /\ AllCreated
  /\ sortedModelNames[1] = maxPasses + 1

\* C8: for two types that require each other, topologicalSort returns both,
\* each once; against a store that refuses a payload with a required
\* relation unset neither is ever created, and for the schema of just that
\* pair multiPassCreate returns after a first pass of two failed creates.
C8_CyclicPair ==
  Loaded =>
     \A x, y \in Models(schema) :
        (x # y /\ Requires(schema, x, y) /\ Requires(schema, y, x)) =>
           /\ Occurrences(sortedModelNames, x) = 1
           /\ Occurrences(sortedModelNames, y) = 1
           /\ ~acceptedUnset => (store[x] = <<>> /\ store[y] = <<>>)
           /\ (schema.n = 2 /\ ~acceptedUnset) =>
                 /\ Len(sortedModelNames) = 2
                 /\ pass = 1
                 /\ createCalls <= 2
                 /\ Returned => (createCalls = 2 /\ ~createdAlgoNestaPassada)

C8_Witness ==
  /\ schema = CyclicPair /\ Returned /\ ~acceptedUnset
  /\ pass = 1 /\ createCalls = 2
  /\ modelDataMap[1].createdRecords = <<>> /\ modelDataMap[2].createdRecords = <<>>

\* The pass loop never runs a pass beyond maxPasses, issues at most one
\* create call per entity type in a pass, and at most maxPasses times the
\* number of entity types in all.
C9_Bounds ==
  Loaded =>
     /\ pass <= maxPasses + 1
     /\ pc = "create" => pass <= maxPasses
     /\ \A m \in Models(schema) : tried[m] <= 1
     /\ createCalls <= maxPasses * schema.n

\* An answer to a create call of the pass loop either ends the loop or
\* issues the next create call, later in the same pass or in a later pass.
C9_LoopStep ==
  pc = "create" =>
     \/ pc' # "create"
     \/ /\ createCalls' = createCalls + 1
        /\ pass' > pass \/ (pass' = pass /\ idx' > idx)

\* C9: multiPassCreate terminates whatever the store answers: every answer
\* moves the loop forward, within at most maxPasses passes, one create call
\* per entity type and pass, maxPasses times the number of types in all.
C9_Terminates == []C9_Bounds /\ [][C9_LoopStep]_vars

\* maxPasses passes that each created something, with a type left over.
C9_Witness ==
  /\ Returned /\ faulty
  /\ pass = maxPasses + 1
  /\ ~AllCreated

\* C10: in the pass loop and at the return of multiPassCreate every entity
\* type has at most one created record, and the type a create call is
\* issued for has none.
C10_AtMostOneRecord ==
  (Loaded /\ (pc = "create" \/ JustReturned)) =>
     /\ \A m \in Models(schema) :
           Len(modelDataMap[m].createdRecords) <= 1 /\ Len(store[m]) <= 1
     /\ pc = "create" => modelDataMap[sortedModelNames[idx]].createdRecords = <<>>

\* A later pass is reached with a type already created and another still to create.
C10_Witness ==
  /\ Loaded /\ pc = "create" /\ pass = 3
  /\ \E m \in Models(schema) : modelDataMap[m].created
  /\ modelDataMap[sortedModelNames[idx]].createdRecords = <<>>

\* The positions after idx of the types the pass has still to attempt.
RestOfPass ==
  { j \in (idx + 1)..Len(sortedModelNames) : ~modelDataMap[sortedModelNames[j]].created }

\* A create call of the pass loop is answered with a failure: the store
\* holds what it held.
C11_FailedCreate == pc = "create" /\ store' = store

C11_Step ==
  C11_FailedCreate =>
     /\ modelDataMap' = modelDataMap
     /\ thrown' = FALSE /\ outcome' = "running"
     /\ IF RestOfPass # {}
          THEN /\ pc' = "create" /\ pass' = pass
               /\ idx' \in RestOfPass /\ \A j \in RestOfPass : idx' <= j
          ELSE pc' # "create" \/ pass' = pass + 1

\* C11: a failed create of the pass loop is not raised and leaves
\* createdRecords and the created flag of every type as they were; the loop
\* goes on with the next type of the pass that is not yet created.
C11_FailureAbsorbed == [][C11_Step]_vars

\* The create of the type before the current one has failed in this pass.
C11_Witness ==
  /\ Loaded /\ pc = "create" /\ idx > 1 /\ pass = 2
  /\ tried[sortedModelNames[idx - 1]] = 1
  /\ ~modelDataMap[sortedModelNames[idx - 1]].created
  /\ ~thrown

\* The single-valued self-relation fields of type m.
SelfFields(s, m) ==
  { i \in 1..Len(s.fields[m]) : s.fields[m][i].type = m /\ ~s.fields[m][i].isList }

\* The value v is a connect instruction that names the record rec by a key.
ConnectsTo(v, rec) ==
  v.kind = "connect" /\ v.keys # <<>> /\ \A k \in 1..Len(v.keys) : v.keys[k] = rec.id

\* C12: in the second-record variant, a self-relating type that left the
\* pass loop with one record and whose additional record was created and
\* updated ends with exactly two records in the store: the self-relation
\* field of the second connects to the key of the first, and the first is
\* as it was created, its self-relation not connected.
C12_SecondPointsAtFirst ==
  (Ended /\ variant = "second") =>
     \A m \in Models(schema) :
        (isSelfRelationModel(schema, m) /\ modelDataMap[m].created
           /\ Len(modelDataMap[m].createdRecords) = 2) =>
              /\ Len(store[m]) = 2
              /\ store[m][1] = modelDataMap[m].createdRecords[1]
              /\ \A i \in SelfFields(schema, m) : store[m][1].rel[i].kind # "connect"
              /\ ConnectsTo(store[m][2].rel[selfRelationField(schema, m)], store[m][1])

\* C13: in the retroactive-update variant, when every update succeeded, the
\* store holds for every self-relating type the records the pass loop
\* created, no more, and the self-relation field of each, the first
\* included, connects to the key of the first.
C13_AllPointAtFirst ==
  (Ended /\ variant = "retro" /\ ~updateFailed) =>
     \A m \in Models(schema) :
        isSelfRelationModel(schema, m) =>
           /\ Len(store[m]) = (IF modelDataMap[m].created THEN 1 ELSE 0)
           /\ Len(modelDataMap[m].createdRecords) = Len(store[m])
           /\ \A k \in 1..Len(store[m]) :
                 /\ store[m][k].id = modelDataMap[m].createdRecords[k].id
                 /\ ConnectsTo(store[m][k].rel[selfRelationField(schema, m)], store[m][1])

\* The run has called disconnect exactly when it is over, and once; a run
\* suspended on a call of the self-relation phase or on disconnect has a next
\* step (the pass loop moves on by C9).
C14_Released ==
  /\ disconnects = (IF pc = "done" THEN 1 ELSE 0)
  /\ (outcome # "running") <=> (pc = "done")
  /\ pc \notin {"done", "load", "create"} => ENABLED Next

\* disconnect is called from the finally block only, and no create or update
\* call follows it.
C14_Step ==
  /\ disconnects' # disconnects => (pc = "disconnect" /\ pc' = "done")
  /\ disconnects > 0 =>
        (store' = store /\ createCalls' = createCalls /\ resolverCalls' = resolverCalls)

\* C14: on every path of generateSeedData (schema load failure, success,
\* early break of the pass loop, maxPasses exhausted) disconnect is called
\* exactly once, after the last create or update call and before the run
\* returns or rethrows.
C14_DisconnectOnce == []C14_Released /\ [][C14_Step]_vars

\* A run that ended after an early break of the pass loop with a type left
\* without record.
C14_Witness ==
  /\ Ended /\ disconnects = 1 /\ pass <= maxPasses /\ ~AllCreated
  /\ createCalls > 0

\* After the schema has loaded nothing is thrown before disconnect is
\* called, whatever create or update has failed.
C15_NothingRaised == (Loaded /\ pc # "done") => (~thrown /\ outcome = "running")

\* When disconnect resolves after a loaded schema the run ends in success.
C15_Step ==
  (Loaded /\ pc = "disconnect" /\ disconnects' = disconnects + 1 /\ thrown' = thrown) =>
     outcome' = "success"

\* C15: no failure of a create or update call leaves generateSeedData: when
\* the schema loads and disconnect succeeds the run ends in the success
\* outcome, also after maxPasses passes or an early exit of the loop with
\* types left without record.
C15_FailuresAbsorbed == []C15_NothingRaised /\ [][C15_Step]_vars

\* Success after maxPasses passes, failed creates and a type left over.
C15_Witness ==
  /\ Ended /\ outcome = "success"
  /\ pass = maxPasses + 1 /\ ~AllCreated /\ refusedConnected

\* C16: when loadDMMF fails, generateSeedData issues no create and no update
\* call, calls disconnect and ends with the failure propagated, not in the
\* success outcome.
C16_LoadFailurePropagates ==
  (~Loaded /\ pc # "load") =>
     /\ createCalls = 0 /\ resolverCalls = 0
     /\ \A m \in Models(schema) : store[m] = <<>>
     /\ thrown
     /\ pc \in {"disconnect", "done"}
     /\ pc = "done" => (disconnects = 1 /\ outcome = "error")

C16_Witness ==
  /\ ~Loaded /\ pc = "done" /\ thrown
  /\ disconnects = 1 /\ outcome = "error" /\ nextId = 1

\* Type m declares no required single-valued relation.
NoRequiredRelation(s, m) ==
  \A i \in 1..Len(s.fields[m]) : ~(s.fields[m][i].isRequired /\ ~s.fields[m][i].isList)

\* The position of type m in sortedModelNames.
Position(m) == CHOOSE j \in 1..Len(sortedModelNames) : sortedModelNames[j] = m

\* The first pass has answered its create call for type m.
AttemptedInFirstPass(m) == pc # "create" \/ pass > 1 \/ idx > Position(m)

\* C17: against a store that accepts every payload whose required relations
\* are connected, a type without required single-valued relation is created
\* by its first create call, in pass 1, whether the targets of its optional
\* relations have a record or not; no later pass attempts it again.
C17_OptionalNeverBlocks ==
  (Loaded /\ ~refusedConnected) =>
     \A m \in Models(schema) :
        NoRequiredRelation(schema, m) =>
           /\ AttemptedInFirstPass(m) =>
                 (modelDataMap[m].created /\ modelDataMap[m].createdRecords # <<>>)
           /\ (pc = "create" /\ sortedModelNames[idx] = m) => (pass = 1 /\ tried[m] = 1)

\* A type created in pass 1 with an optional relation to a type that had no
\* record yet, and a list of a third.
C17_Witness ==
  /\ Loaded /\ ~refusedConnected /\ pass = 1
  /\ \E m \in Models(schema) : \E i, j \in 1..Len(schema.fields[m]) :
        /\ NoRequiredRelation(schema, m)
        /\ schema.fields[m][i] = OptField(schema.fields[m][i].type)
        /\ schema.fields[m][i].type # m
        /\ schema.fields[m][j].isList
        /\ modelDataMap[m].created
        /\ modelDataMap[m].createdRecords[1].rel[i] = Unset

\* In the pass loop and at its return the flag of the pass tells whether the
\* run state differs from the one the pass started with; a return before
\* maxPasses is exhausted is a return after a pass that changed nothing.
C18_PassState ==
  (Loaded /\ (pc = "create" \/ JustReturned)) =>
     /\ createdAlgoNestaPassada <=> (modelDataMap # passStartMap)
     /\ (JustReturned /\ pass <= maxPasses) =>
           (~createdAlgoNestaPassada /\ modelDataMap = passStartMap)

C18_Step ==
  /\ (Loaded /\ pass' # pass) =>
        (pass' = pass + 1 /\ modelDataMap' # passStartMap)
  /\ (pc = "create" /\ RestOfPass = {} /\ modelDataMap' = passStartMap) =>
        (pc' # "create" /\ pass' = pass /\ createCalls' = createCalls)
  /\ Returned => (pc' # "create" /\ createCalls' = createCalls)

\* C18: a pass that creates nothing ends the pass loop: no create call
\* follows it and the run state is the one the pass started with; a further
\* pass starts only after a pass in which a create succeeded.
C18_NoProgressEndsLoop == []C18_PassState /\ [][C18_Step]_vars

\* The loop left after a third pass of failed creates only.
C18_Witness ==
  /\ JustReturned /\ pass = 3 /\ ~AllCreated
  /\ modelDataMap = passStartMap
  /\ \E m \in Models(schema) : tried[m] = 1

\* What the payload of a create of type m is to carry for its field i, when
\* the records created so far are those with an identifying value below
\* limit: a connect naming the key of the target's first record when there
\* is one, else the field unset; for a list and a field without foreign key
\* nothing; for a relation of the type to itself never a connect.
ExpectedRelation(m, i, limit, v) ==
  LET f == schema.fields[m][i]
      t == modelDataMap[f.type].createdRecords
  IN  IF f.type = m THEN v.kind # "connect" /\ (variant # "plain" => v = Absent)
      ELSE IF f.isList \/ f.nFrom = 0 THEN v = Absent
      ELSE IF t # <<>> /\ t[1].id < limit
        THEN v.kind = "connect" /\ Len(v.keys) = f.nTo
             /\ \A k \in 1..f.nTo : v.keys[k] = t[1].id
      ELSE v = Unset

\* C19: the payload buildCreationData assembles, for the create call the
\* run is suspended on and for every first record created so far, carries
\* for each single-valued relation to another type that holds a foreign key
\* a connect to the key of the target's first created record exactly when
\* the target had a record at that moment, and else leaves the field unset;
\* a relation of the type to itself carries no connect.
C19_ConnectIffTargetExists ==
  Loaded =>
     /\ pc = "create" =>
           LET m    == sortedModelNames[idx]
               data == creationData(schema, variant, modelDataMap, m)
           IN  \A i \in 1..Len(schema.fields[m]) :
                  ExpectedRelation(m, i, nextId, data[i])
     /\ pc = "selfFirst" =>
           LET data == buildCreationData(schema, modelDataMap, selfIdx)
           IN  \A i \in 1..Len(schema.fields[selfIdx]) :
                  ExpectedRelation(selfIdx, i, nextId, data[i])
     /\ \A m \in Models(schema) :
           modelDataMap[m].createdRecords # <<>> =>
              LET r == modelDataMap[m].createdRecords[1]
              IN  \A i \in 1..Len(schema.fields[m]) : ExpectedRelation(m, i, r.id, r.rel[i])

\* A create call whose payload connects an optional relation to a target
\* that has a record and leaves another, whose target has none, unset.
C19_Witness ==
  /\ Loaded /\ pc = "create"
  /\ LET m    == sortedModelNames[idx]
         data == creationData(schema, variant, modelDataMap, m)
     IN  \E i, j \in 1..Len(schema.fields[m]) :
            /\ ~schema.fields[m][i].isRequired
            /\ data[i].kind = "connect" /\ data[i].keys # <<>>
            /\ data[j] = Unset
            /\ modelDataMap[schema.fields[m][j].type].createdRecords = <<>>

\* The self-relating types after the current one that the for-in loop has a
\* call to issue for: all of them in the second-record variant, those with a
\* created record in the retroactive-update variant.
LaterSelfTypes ==
  { j \in (selfIdx + 1)..schema.n :
      /\ isSelfRelationModel(schema, j)
      /\ variant = "retro" => modelDataMap[j].createdRecords # <<>> }

\* The call the self-relation phase issues first for type j.
FirstCallFor(j) ==
  IF variant = "retro" THEN "retroUpdate"
  ELSE IF modelDataMap[j].createdRecords = <<>> THEN "selfFirst"
  ELSE "selfSecond"

\* A step that answers a call of the self-relation phase: after a create
\* that succeeded the next call for the same type; in the retroactive-update
\* variant the update of the next record of the type; and else, also after
\* a failure, the first call for the next self-relating type, or the
\* disconnect when there is none.  Nothing is thrown.
C20_Step ==
  (pc \in {"selfFirst", "selfSecond", "selfUpdate", "retroUpdate"}) =>
     /\ thrown' = FALSE
     /\ IF pc \in {"selfFirst", "selfSecond"} /\ store' # store
          THEN /\ selfIdx' = selfIdx
               /\ pc' = (IF pc = "selfFirst" THEN "selfSecond" ELSE "selfUpdate")
        ELSE IF pc = "retroUpdate" /\ recIdx < Len(modelDataMap[selfIdx].createdRecords)
          THEN pc' = "retroUpdate" /\ selfIdx' = selfIdx /\ recIdx' = recIdx + 1
        ELSE IF LaterSelfTypes = {} THEN pc' = "disconnect"
        ELSE /\ selfIdx' \in LaterSelfTypes
             /\ \A j \in LaterSelfTypes : selfIdx' <= j
             /\ pc' = FirstCallFor(selfIdx')

\* C20: in the self-relation phase a failed create or update for one type or
\* record does not end the phase: the next record and every later
\* self-relating type are still processed, in both variants.
C20_PhaseGoesOn == [][C20_Step]_vars

\* The update for the second self-relating type is issued after an update
\* for the first has failed.
C20_Witness ==
  /\ Loaded /\ variant = "retro" /\ pc = "retroUpdate" /\ selfIdx = 2
  /\ updateFailed /\ ~thrown
  /\ isSelfRelationModel(schema, 1) /\ modelDataMap[1].createdRecords # <<>>

\* C21: in every state of the run, the self-relation phase of the
\* second-record variant included, the created flag of a type is true
\* exactly when its createdRecords is not empty.
C21_CreatedIffRecord ==
  Loaded =>
     \A m \in Models(schema) :
        modelDataMap[m].created <=> (modelDataMap[m].createdRecords # <<>>)

\* The identifying values of the records of a sequence.
Ids(recs) == { recs[k].id : k \in 1..Len(recs) }

\* C22: in every state of the run the records held in createdRecords of a
\* type are exactly the records that successful create calls have persisted
\* for it, also when the create of the additional record has succeeded and
\* the update that follows it has failed.  (The state between that create
\* and the answer to its update is left aside.)
C22_RunStateMirrorsStore ==
  (Loaded /\ pc # "selfUpdate") =>
     \A m \in Models(schema) : Ids(modelDataMap[m].createdRecords) = Ids(store[m])

\* C23: against a store that accepts a payload exactly when every required
\* single-valued relation is connected, the pass loop runs at most two
\* passes for every schema, cyclic or not, and the second creates nothing:
\* every create of the pass loop that succeeds does so in pass 1.
C23_FirstPassCreatesAll ==
  (Loaded /\ StoreExact) =>
     /\ pass <= 2
     /\ (pass = 2 /\ (pc = "create" \/ JustReturned)) =>
           (~createdAlgoNestaPassada /\ modelDataMap = passStartMap)

\* A cyclic schema: the first pass has created a type, the second pass has
\* attempted the others again, and the loop has returned with them left.
C23_Witness ==
  /\ JustReturned /\ StoreExact /\ pass = 2
  /\ ~Acyclic(graph) /\ ~AllCreated
  /\ \E m \in Models(schema) : modelDataMap[m].created
  /\ createCalls > schema.n

\* Sequence p is the beginning of sequence q.
IsPrefix(p, q) == Len(p) <= Len(q) /\ \A k \in 1..Len(p) : q[k] = p[k]

\* A step only appends to createdRecords.
C24_Step ==
  Loaded => \A m \in Models(schema) :
               IsPrefix(modelDataMap[m].createdRecords, modelDataMap'[m].createdRecords)

\* Every connect the store holds, sent with a create of the pass loop or of
\* the self-relation phase or with an update of it, names the first created
\* record of the target type, and that record is not younger than the
\* record that carries the connect.
C24_ConnectsNameFirst ==
  Loaded =>
     \A m \in Models(schema) : \A k \in 1..Len(store[m]) :
        \A i \in 1..Len(schema.fields[m]) :
           LET v == store[m][k].rel[i]
               t == modelDataMap[schema.fields[m][i].type].createdRecords
           IN  (v.kind = "connect" /\ v.keys # <<>>) =>
                  /\ t # <<>>
                  /\ \A j \in 1..Len(v.keys) : v.keys[j] = t[1].id
                  /\ t[1].id < store[m][k].id
                        \/ (variant = "retro" /\ t[1].id = store[m][k].id)

\* C24: createdRecords is append-only over the whole run: the first created
\* record of a type stays first and is never removed or replaced, so every
\* connect sent for a target type names that same record, which was created
\* before the connect was built.
C24_AppendOnly == []C24_ConnectsNameFirst /\ [][C24_Step]_vars

\* The second-record variant at its end: a self-relating type with its two
\* records, the second connected to the first, and another type connected
\* to that same first record.
C24_Witness ==
  /\ Ended /\ variant = "second"
  /\ \E m, x \in Models(schema) :
        /\ m # x /\ Len(modelDataMap[m].createdRecords) = 2
        /\ \E i \in 1..Len(schema.fields[m]) :
              store[m][2].rel[i] = Connect(<<modelDataMap[m].createdRecords[1].id>>)
        /\ store[x] # <<>>
        /\ \E i \in 1..Len(schema.fields[x]) :
              /\ schema.fields[x][i].type = m
              /\ store[x][1].rel[i] = Connect(<<modelDataMap[m].createdRecords[1].id>>)

=============================================================================
